---- MODULE Spec2Model ----
(***************************************************************************)
(* Model of src/jobs/data_processing_job.py: the label functions, the      *)
(* record generator create_sample_data, the two aggregation paths          *)
(* (apply_rdd_transformations, apply_dataframe_transformations), the sink  *)
(* save_results and the top-level job main().                              *)
(*                                                                         *)
(* Four specifications share the module:                                   *)
(*   SpecLabel  the label functions applied to one (age, salary) input     *)
(*   SpecGen    one call of create_sample_data(spark, num_rows)            *)
(*   SpecAgg    both aggregation paths applied to one input DataFrame      *)
(*   Spec       one run of main()                                          *)
(* A specification leaves the variables of the other three at their idle   *)
(* values.                                                                 *)
(***************************************************************************)
EXTENDS Integers, Sequences, FiniteSets, Bags, TLC

VARIABLES
    \* ---- label functions (SpecLabel)
    lpc, age, salary, rdd_band, age_group, salary_category,
    \* ---- create_sample_data (SpecGen)
    gpc, num_rows, data, rdd, gdf, glog, gresult,
    \* ---- aggregation paths (SpecAgg)
    apc, adf, partials, dept_sums, age_sums, dept_avg_salary, age_group_stats,
    df_with_features, dept_stats, age_stats,
    \* ---- main (Spec)
    pc, sparkBound, sessionLive, initCount, stopCount, ran, raised, pending,
    exitErr, log, files

labelVars == <<lpc, age, salary, rdd_band, age_group, salary_category>>
genVars   == <<gpc, num_rows, data, rdd, gdf, glog, gresult>>
aggVars   == <<apc, adf, partials, dept_sums, age_sums, dept_avg_salary, age_group_stats,
               df_with_features, dept_stats, age_stats>>
mainVars  == <<pc, sparkBound, sessionLive, initCount, stopCount, ran, raised,
               pending, exitErr, log, files>>
vars      == <<labelVars, genVars, aggVars, mainVars>>

----------------------------------------------------------------------------
\* Bounds of the model.

\* Ages offered to the label functions: 0..MaxAge.
MaxAge == 70
\* Largest row count offered to create_sample_data.
MaxRows == 2
\* Largest number of rows of an input DataFrame of the aggregation paths.
MaxRecs == 4

\* Salaries offered to the label functions: both sides of each threshold.
SalaryInputs ==
    {0, 29999, 30000, 49999, 50000, 50001, 99999, 100000, 100001, 150000}

----------------------------------------------------------------------------
\* Idle values of each group of variables.

\* The value of rdd before parallelize() has made one.
NoRdd == [created |-> FALSE, rows |-> <<>>]

LabelIdle ==
    /\ lpc = "idle" /\ age = 0 /\ salary = 0
    /\ rdd_band = "" /\ age_group = "" /\ salary_category = ""

GenIdle ==
    /\ gpc = "idle" /\ num_rows = [isint |-> TRUE, val |-> 0]
    /\ data = <<>> /\ rdd = NoRdd /\ gdf = <<>> /\ glog = <<>>
    /\ gresult = "none"

AggIdle ==
    /\ apc = "idle" /\ adf = <<>> /\ partials = EmptyBag
    /\ dept_sums = <<>> /\ age_sums = <<>>
    /\ dept_avg_salary = <<>> /\ age_group_stats = <<>>
    /\ df_with_features = <<>> /\ dept_stats = <<>> /\ age_stats = <<>>

MainIdle ==
    /\ pc = "idle" /\ sparkBound = FALSE /\ sessionLive = FALSE
    /\ initCount = 0 /\ stopCount = 0 /\ ran = <<>> /\ raised = "none"
    /\ pending = "none" /\ exitErr = "none" /\ log = <<>> /\ files = <<>>

----------------------------------------------------------------------------
\* Label functions.

\* The key-value path's lambda:
\*   "Young" if row.age < 30 else "Middle" if row.age < 50 else "Senior"
AgeBandYoungInclusive(a) ==
    IF a <= 30 THEN "Young" ELSE IF a < 50 THEN "Middle" ELSE "Senior"

AgeBand(a) ==
    IF a < 30 THEN "Young" ELSE IF a < 50 THEN "Middle" ELSE "Senior"

\* pyspark's when(c1, v1).when(c2, v2).otherwise(v): the value of the first
\* branch, in order, whose condition is true, else the otherwise value.
CaseWhen(conds, vals, other) ==
    IF \E i \in 1..Len(conds) : conds[i]
    THEN vals[CHOOSE i \in 1..Len(conds) :
                  conds[i] /\ \A j \in 1..(i - 1) : ~conds[j]]
    ELSE other

\* The tabular path's age_group column.
AgeGroupColumnMiddleInclusive(a) ==
    CaseWhen(<<a < 30, a <= 50>>, <<"Young", "Middle">>, "Senior")

AgeGroupColumn(a) ==
    CaseWhen(<<a < 30, a < 50>>, <<"Young", "Middle">>, "Senior")

\* The tabular path's salary_category column.
SalaryCategoryColumn(s) ==
    CaseWhen(<<s < 50000, s < 100000>>, <<"Low", "Medium">>, "High")

InitLabel ==
    /\ lpc = "input"
    /\ age \in 0..MaxAge
    /\ salary \in SalaryInputs
    /\ rdd_band = "" /\ age_group = "" /\ salary_category = ""
    /\ GenIdle /\ AggIdle /\ MainIdle

\* Both paths label the same row.
ApplyLabels ==
    /\ lpc = "input"
    /\ rdd_band' = AgeBand(age)
    /\ age_group' = AgeGroupColumn(age)
    /\ salary_category' = SalaryCategoryColumn(salary)
    /\ lpc' = "labelled"
    /\ UNCHANGED <<age, salary, genVars, aggVars, mainVars>>

NextLabel == ApplyLabels

SpecLabel == InitLabel /\ [][NextLabel]_vars

----------------------------------------------------------------------------
\* create_sample_data(spark, num_rows).

departments == <<"Engineering", "Sales", "Marketing", "HR", "Finance">>
names ==
    <<"Alice", "Bob", "Charlie", "Diana", "Eve", "Frank", "Grace", "Henry">>

\* random.randint(a, b) returns an integer N with a <= N <= b; the draws
\* offered are the two ends of the range.
RandInt(a, b) == {a, b}

\* random.choice(seq) returns an element of seq; the draws offered are its
\* first and its last element.
Choice(seq) == {seq[1], seq[Len(seq)]}

\* generate_record(): the tuples (id, name, age, salary, department) one call
\* can return.
GenerateRecord ==
    RandInt(1, 10000) \X Choice(names) \X RandInt(22, 65)
        \X RandInt(30000, 150000) \X Choice(departments)

\* for _ in range(num_rows): whether the range yields another item after i
\* items (range of a number below 1 is empty).
RangeHasNextInclusive(i, n) == i <= n

RangeHasNext(i, n) == i < n

\* rdd.toDF(["id", "name", "age", "salary", "department"]): names the fields
\* of each tuple.
ToRow(t) ==
    [id |-> t[1], name |-> t[2], age |-> t[3], salary |-> t[4],
     department |-> t[5]]

ToDF(r) == [i \in 1..Len(r) |-> ToRow(r[i])]

\* The row counts offered: the integers -1..MaxRows and one non-integer (the
\* float 1.5, val being its integer part).
NumRowsInputs ==
    [isint : {TRUE}, val : -1..MaxRows] \cup {[isint |-> FALSE, val |-> 1]}

InitGen ==
    /\ gpc = "log_creating"
    /\ num_rows \in NumRowsInputs
    /\ data = <<>> /\ rdd = NoRdd /\ gdf = <<>> /\ glog = <<>>
    /\ gresult = "none"
    /\ LabelIdle /\ AggIdle /\ MainIdle

\* line 55: logger.info(f"Creating RDD with {num_rows} sample records...")
GenLogCreating ==
    /\ gpc = "log_creating"
    /\ glog' = Append(glog, "Creating RDD")
    /\ gpc' = "range"
    /\ UNCHANGED <<num_rows, data, rdd, gdf, gresult>>
    /\ UNCHANGED <<labelVars, aggVars, mainVars>>

\* line 56: range(num_rows) raises TypeError when num_rows is not an integer.
GenRange ==
    /\ gpc = "range"
    /\ IF num_rows.isint
       THEN gpc' = "loop" /\ gresult' = gresult
       ELSE gpc' = "done" /\ gresult' = "raised"
    /\ UNCHANGED <<num_rows, data, rdd, gdf, glog>>
    /\ UNCHANGED <<labelVars, aggVars, mainVars>>

\* line 56: one iteration of [generate_record() for _ in range(num_rows)].
GenLoop ==
    /\ gpc = "loop"
    /\ RangeHasNext(Len(data), num_rows.val)
    /\ \E t \in GenerateRecord : data' = Append(data, t)
    /\ UNCHANGED <<gpc, num_rows, rdd, gdf, glog, gresult>>
    /\ UNCHANGED <<labelVars, aggVars, mainVars>>

\* line 56: spark.sparkContext.parallelize(list) once the range is exhausted.
GenParallelize ==
    /\ gpc = "loop"
    /\ ~RangeHasNext(Len(data), num_rows.val)
    /\ rdd' = [created |-> TRUE, rows |-> data]
    /\ gpc' = "toDF"
    /\ UNCHANGED <<num_rows, data, gdf, glog, gresult>>
    /\ UNCHANGED <<labelVars, aggVars, mainVars>>

\* line 59: rdd.toDF(names). The schema is inferred from the first row, so an
\* empty RDD makes toDF raise ValueError ("RDD is empty").
GenToDF ==
    /\ gpc = "toDF"
    /\ IF rdd.rows = <<>>
       THEN gpc' = "done" /\ gresult' = "raised" /\ gdf' = gdf
       ELSE gpc' = "count" /\ gresult' = gresult /\ gdf' = ToDF(rdd.rows)
    /\ UNCHANGED <<num_rows, data, rdd, glog>>
    /\ UNCHANGED <<labelVars, aggVars, mainVars>>

\* lines 61-64: log df.count(), print the schema, return df.
GenReturn ==
    /\ gpc = "count"
    /\ glog' = Append(glog, "Created DataFrame")
    /\ gresult' = "returned"
    /\ gpc' = "done"
    /\ UNCHANGED <<num_rows, data, rdd, gdf>>
    /\ UNCHANGED <<labelVars, aggVars, mainVars>>

NextGen ==
    \/ GenLogCreating
    \/ GenRange
    \/ GenLoop
    \/ GenParallelize
    \/ GenToDF
    \/ GenReturn

SpecGen == InitGen /\ [][NextGen]_vars

----------------------------------------------------------------------------
\* apply_rdd_transformations and apply_dataframe_transformations.

\* The rows offered as input: the three rows of the worked example (r1..r3)
\* and three more, with ages on both thresholds and a salary that makes an
\* average a non-integer.
AggRecords ==
    { [id |-> 1, name |-> "Alice", age |-> 25, salary |-> 40000,
       department |-> "Engineering"],
      [id |-> 2, name |-> "Bob", age |-> 35, salary |-> 60000,
       department |-> "Engineering"],
      [id |-> 3, name |-> "Charlie", age |-> 28, salary |-> 80000,
       department |-> "Sales"],
      [id |-> 4, name |-> "Diana", age |-> 50, salary |-> 100000,
       department |-> "Sales"],
      [id |-> 5, name |-> "Eve", age |-> 65, salary |-> 30001,
       department |-> "HR"],
      [id |-> 6, name |-> "Frank", age |-> 30, salary |-> 150000,
       department |-> "Engineering"] }

\* Input DataFrames: every sequence of at most MaxRecs rows.
AggInputs == UNION {[1..n -> AggRecords] : n \in 0..MaxRecs}

RECURSIVE Gcd(_, _)
Gcd(a, b) == IF b = 0 THEN a ELSE Gcd(b, a % b)

\* The outcome of a division by zero.
ZeroDivisionError == <<0, 0>>

\* x[0] / x[1] (Python's true division of two integers) and the quotient
\* sum / count of Spark's avg: the quotient as a fraction in lowest terms,
\* which determines the float both produce.
TrueDiv(n, d) ==
    IF d = 0 THEN ZeroDivisionError
    ELSE <<n \div Gcd(n, d), d \div Gcd(n, d)>>

\* mapValues(lambda salary: (salary, 1))
PairWithZero(s) == <<s, 0>>

PairWithOne(s) == <<s, 1>>

\* The combiner handed to reduceByKey: lambda x, y: (x[0] + y[0], x[1] + y[1])
combinerCountsOne(x, y) == <<x[1] + y[1], x[2] + 1>>

combiner(x, y) == <<x[1] + y[1], x[2] + y[2]>>

RECURSIVE SeqToBag(_)
SeqToBag(s) ==
    IF s = <<>> THEN EmptyBag
    ELSE SetToBag({Head(s)}) (+) SeqToBag(Tail(s))

\* df.rdd.map(lambda row: (row.department, row.salary)).mapValues(...): the
\* (key, (salary, 1)) pairs, in no order.
DeptPairs(df) ==
    SeqToBag([i \in 1..Len(df) |->
                  <<df[i].department, PairWithOne(df[i].salary)>>])

\* df.rdd.map(lambda row: (band of row.age, row.salary)).mapValues(...)
AgePairs(df) ==
    SeqToBag([i \in 1..Len(df) |->
                  <<AgeBand(df[i].age), PairWithOne(df[i].salary)>>])

\* One application of the reduceByKey combiner: any two values of one key,
\* in either order, whatever partitions they come from, are replaced by
\* their combination.
ReduceByKeyStep(bag, bag2) ==
    \E x \in BagToSet(bag), y \in BagToSet(bag) :
        /\ x[1] = y[1]
        /\ (x # y \/ CopiesIn(x, bag) >= 2)
        /\ bag2 = ((bag (-) SetToBag({x})) (-) SetToBag({y}))
                      (+) SetToBag({<<x[1], combiner(x[2], y[2])>>})

\* reduceByKey has finished when every key has a single value left.
Reduced(bag) ==
    \A x \in BagToSet(bag), y \in BagToSet(bag) :
        x[1] = y[1] => (x = y /\ CopiesIn(x, bag) = 1)

Keys(bag) == {x[1] : x \in BagToSet(bag)}

ValueOf(bag, k) == (CHOOSE x \in BagToSet(bag) : x[1] = k)[2]

\* .mapValues(lambda x: x[0] / x[1])
DeptFinal(x) == TrueDiv(x[1], x[2])

\* .mapValues(lambda x: (x[0] / x[1], x[1]))
AgeFinal(x) == <<TrueDiv(x[1], x[2]), x[2]>>

\* withColumn("age_group", ...).withColumn("salary_category", ...)
WithFeatures(df) ==
    [i \in 1..Len(df) |->
        [id |-> df[i].id, name |-> df[i].name, age |-> df[i].age,
         salary |-> df[i].salary, department |-> df[i].department,
         age_group |-> AgeGroupColumn(df[i].age),
         salary_category |-> SalaryCategoryColumn(df[i].salary)]]

\* groupBy(c): the distinct values of column c and the rows of each.
GroupKeys(df, c) == {df[i][c] : i \in 1..Len(df)}

GroupRows(df, c, k) == {i \in 1..Len(df) : df[i][c] = k}

RECURSIVE SumOf(_, _, _)
SumOf(df, c, I) ==
    IF I = {} THEN 0
    ELSE LET i == CHOOSE j \in I : TRUE
         IN df[i][c] + SumOf(df, c, I \ {i})

\* count("*") and avg(c) of one group.
CountAgg(I) == Cardinality(I)

AvgAgg(df, c, I) == TrueDiv(SumOf(df, c, I), Cardinality(I))

\* groupBy("department").agg(count("*"), avg("salary"), avg("age"))
DeptStats(df) ==
    [k \in GroupKeys(df, "department") |->
        LET I == GroupRows(df, "department", k)
        IN [employee_count |-> CountAgg(I),
            avg_salary |-> AvgAgg(df, "salary", I),
            avg_age |-> AvgAgg(df, "age", I)]]

\* groupBy("age_group").agg(count("*"), avg("salary"))
AgeStats(df) ==
    [k \in GroupKeys(df, "age_group") |->
        LET I == GroupRows(df, "age_group", k)
        IN [count |-> CountAgg(I), avg_salary |-> AvgAgg(df, "salary", I)]]

InitAgg ==
    /\ apc = "rdd_dept_map"
    /\ adf \in AggInputs
    /\ partials = EmptyBag /\ dept_sums = <<>> /\ age_sums = <<>>
    /\ dept_avg_salary = <<>> /\ age_group_stats = <<>>
    /\ df_with_features = <<>> /\ dept_stats = <<>> /\ age_stats = <<>>
    /\ LabelIdle /\ GenIdle /\ MainIdle

\* lines 78, 82: the (department, (salary, 1)) pairs.
AggMapDept ==
    /\ apc = "rdd_dept_map"
    /\ partials' = DeptPairs(adf)
    /\ apc' = "rdd_dept_reduce"
    /\ UNCHANGED <<adf, dept_sums, age_sums, dept_avg_salary, age_group_stats,
                   df_with_features, dept_stats, age_stats>>
    /\ UNCHANGED <<labelVars, genVars, mainVars>>

\* line 83: one combination of reduceByKey.
AggReduceDept ==
    /\ apc = "rdd_dept_reduce"
    /\ ReduceByKeyStep(partials, partials')
    /\ UNCHANGED <<apc, adf, dept_sums, age_sums, dept_avg_salary,
                   age_group_stats, df_with_features, dept_stats, age_stats>>
    /\ UNCHANGED <<labelVars, genVars, mainVars>>

\* lines 84-88: the final division, collected.
AggFinalDept ==
    /\ apc = "rdd_dept_reduce"
    /\ Reduced(partials)
    /\ dept_sums' = [k \in Keys(partials) |-> ValueOf(partials, k)]
    /\ dept_avg_salary' =
           [k \in Keys(partials) |-> DeptFinal(ValueOf(partials, k))]
    /\ apc' = "rdd_age_map"
    /\ UNCHANGED <<adf, partials, age_sums, age_group_stats,
                   df_with_features, dept_stats, age_stats>>
    /\ UNCHANGED <<labelVars, genVars, mainVars>>

\* lines 91-96: the (age band, (salary, 1)) pairs.
AggMapAge ==
    /\ apc = "rdd_age_map"
    /\ partials' = AgePairs(adf)
    /\ apc' = "rdd_age_reduce"
    /\ UNCHANGED <<adf, dept_sums, age_sums, dept_avg_salary, age_group_stats,
                   df_with_features, dept_stats, age_stats>>
    /\ UNCHANGED <<labelVars, genVars, mainVars>>

\* line 97: one combination of reduceByKey.
AggReduceAge ==
    /\ apc = "rdd_age_reduce"
    /\ ReduceByKeyStep(partials, partials')
    /\ UNCHANGED <<apc, adf, dept_sums, age_sums, dept_avg_salary,
                   age_group_stats, df_with_features, dept_stats, age_stats>>
    /\ UNCHANGED <<labelVars, genVars, mainVars>>

\* lines 98-104: the final division with the count kept, collected; the
\* key-value path returns.
AggFinalAge ==
    /\ apc = "rdd_age_reduce"
    /\ Reduced(partials)
    /\ age_sums' = [k \in Keys(partials) |-> ValueOf(partials, k)]
    /\ age_group_stats' =
           [k \in Keys(partials) |-> AgeFinal(ValueOf(partials, k))]
    /\ apc' = "dataframe"
    /\ UNCHANGED <<adf, partials, dept_sums, dept_avg_salary,
                   df_with_features, dept_stats, age_stats>>
    /\ UNCHANGED <<labelVars, genVars, mainVars>>

\* lines 113-143: the tabular path.
AggDataFrame ==
    /\ apc = "dataframe"
    /\ df_with_features' = WithFeatures(adf)
    /\ dept_stats' = DeptStats(WithFeatures(adf))
    /\ age_stats' = AgeStats(WithFeatures(adf))
    /\ apc' = "done"
    /\ UNCHANGED <<adf, partials, dept_sums, age_sums, dept_avg_salary,
                   age_group_stats>>
    /\ UNCHANGED <<labelVars, genVars, mainVars>>

NextAgg ==
    \/ AggMapDept
    \/ AggReduceDept
    \/ AggFinalDept
    \/ AggMapAge
    \/ AggReduceAge
    \/ AggFinalAge
    \/ AggDataFrame

SpecAgg == InitAgg /\ [][NextAgg]_vars

----------------------------------------------------------------------------
\* save_results and main().
\*
\* pc          the statement of main() about to run
\* sparkBound  whether the local name spark is bound ('spark' in locals())
\* sessionLive whether a Spark session exists in the process
\* initCount   how many times a session was created
\* stopCount   how many times spark.stop() was called
\* ran         the stages entered so far, in order
\* raised      the stage whose call raised, "none" if none did
\* pending     the exception propagating out of the try block, named by the
\*             stage that raised it
\* exitErr     the exception main() ended with, "none" for a normal return
\* log         the messages main() and save_results() logged, in order
\* files       the state of each output path

processed_path == "processed_data.parquet"
dept_stats_path == "department_stats.parquet"
age_stats_path == "age_stats.parquet"
Paths == {processed_path, dept_stats_path, age_stats_path}

\* Log messages: the text and the value formatted into it.
StartedMsg == <<"Starting Simple PySpark Job...", "">>
SessionCreatedMsg == <<"Spark session created successfully", "">>
SavedMsg(p) == <<"Saved to", p>>
CompletedMsg == <<"PySpark job completed successfully!", "">>
SampleMsg == <<"Sample of processed data:", "">>
ErrorMsg(e) == <<"Error in PySpark job", e>>
StoppedMsg == <<"Spark session stopped", "">>

\* A statement of the try block raises: control goes to the except clause.
Raise(stage) ==
    /\ raised' = stage
    /\ pending' = stage
    /\ pc' = "except"

\* df.write.mode("overwrite").parquet(path) writes in place at the final
\* path: overwrite mode removes what is there and then writes the new part
\* files. A write that succeeds leaves the new output. A write that fails
\* leaves what was there (it failed before touching the path), nothing (the
\* old contents were removed) or some of the new part files.
WriteSucceeded(old) == "current"

WriteFailed(old) == {old, "absent", "partial"}

InitMain ==
    /\ pc = "start"
    /\ sparkBound = FALSE /\ sessionLive = FALSE
    /\ initCount = 0 /\ stopCount = 0
    /\ ran = <<>> /\ raised = "none" /\ pending = "none" /\ exitErr = "none"
    /\ log = <<>>
    /\ files \in [Paths -> {"absent", "previous"}]
    /\ LabelIdle /\ GenIdle /\ AggIdle

\* lines 170-171
MainStart ==
    /\ pc = "start"
    /\ log' = Append(log, StartedMsg)
    /\ pc' = "getOrCreate"
    /\ UNCHANGED <<sparkBound, sessionLive, initCount, stopCount, ran, raised,
                   pending, exitErr, files>>
    /\ UNCHANGED <<labelVars, genVars, aggVars>>

\* line 175 calling lines 22-27: SparkSession.builder...getOrCreate()
MainGetOrCreate ==
    /\ pc = "getOrCreate"
    /\ ran' = Append(ran, "create_session")
    /\ \/ /\ sessionLive' = TRUE
          /\ initCount' = initCount + 1
          /\ pc' = "conf_set"
          /\ UNCHANGED <<raised, pending>>
       \/ /\ Raise("create_session")
          /\ UNCHANGED <<sessionLive, initCount>>
    /\ UNCHANGED <<sparkBound, stopCount, exitErr, log, files>>
    /\ UNCHANGED <<labelVars, genVars, aggVars>>

\* lines 30-32 and 175-176: spark.conf.set(...), return, bind spark, log.
MainConfSet ==
    /\ pc = "conf_set"
    /\ \/ /\ sparkBound' = TRUE
          /\ log' = Append(log, SessionCreatedMsg)
          /\ pc' = "generation"
          /\ UNCHANGED <<raised, pending>>
       \/ /\ Raise("create_session")
          /\ UNCHANGED <<sparkBound, log>>
    /\ UNCHANGED <<sessionLive, initCount, stopCount, ran, exitErr, files>>
    /\ UNCHANGED <<labelVars, genVars, aggVars>>

\* line 179: df = create_sample_data(spark, num_rows=1000)
MainGenerate ==
    /\ pc = "generation"
    /\ ran' = Append(ran, "generation")
    /\ \/ pc' = "rdd" /\ UNCHANGED <<raised, pending>>
       \/ Raise("generation")
    /\ UNCHANGED <<sparkBound, sessionLive, initCount, stopCount, exitErr,
                   log, files>>
    /\ UNCHANGED <<labelVars, genVars, aggVars>>

\* line 182: apply_rdd_transformations(spark, df)
MainRdd ==
    /\ pc = "rdd"
    /\ ran' = Append(ran, "rdd")
    /\ \/ pc' = "dataframe" /\ UNCHANGED <<raised, pending>>
       \/ Raise("rdd")
    /\ UNCHANGED <<sparkBound, sessionLive, initCount, stopCount, exitErr,
                   log, files>>
    /\ UNCHANGED <<labelVars, genVars, aggVars>>

\* line 185: apply_dataframe_transformations(df)
MainDataFrame ==
    /\ pc = "dataframe"
    /\ ran' = Append(ran, "dataframe")
    /\ \/ pc' = "makedirs" /\ UNCHANGED <<raised, pending>>
       \/ Raise("dataframe")
    /\ UNCHANGED <<sparkBound, sessionLive, initCount, stopCount, exitErr,
                   log, files>>
    /\ UNCHANGED <<labelVars, genVars, aggVars>>

\* line 188 calling lines 150-151: os.makedirs(output_dir, exist_ok=True)
MainMakedirs ==
    /\ pc = "makedirs"
    /\ ran' = Append(ran, "makedirs")
    /\ \/ pc' = "write_processed" /\ UNCHANGED <<raised, pending>>
       \/ Raise("makedirs")
    /\ UNCHANGED <<sparkBound, sessionLive, initCount, stopCount, exitErr,
                   log, files>>
    /\ UNCHANGED <<labelVars, genVars, aggVars>>

\* One write of save_results and its log line.
Write(stage, path, next) ==
    /\ ran' = Append(ran, stage)
    /\ \/ /\ files' = [files EXCEPT ![path] = WriteSucceeded(files[path])]
          /\ log' = Append(log, SavedMsg(path))
          /\ pc' = next
          /\ UNCHANGED <<raised, pending>>
       \/ /\ \E left \in WriteFailed(files[path]) :
                 files' = [files EXCEPT ![path] = left]
          /\ Raise(stage)
          /\ UNCHANGED log
    /\ UNCHANGED <<sparkBound, sessionLive, initCount, stopCount, exitErr>>
    /\ UNCHANGED <<labelVars, genVars, aggVars>>

\* lines 154-156
MainWriteProcessed ==
    /\ pc = "write_processed"
    /\ Write("write_processed", processed_path, "write_dept")

\* lines 159-161
MainWriteDept ==
    /\ pc = "write_dept"
    /\ Write("write_dept", dept_stats_path, "write_age")

\* lines 164-166: the last write; save_results returns.
MainWriteAge ==
    /\ pc = "write_age"
    /\ Write("write_age", age_stats_path, "completed")

\* lines 190-193
MainLogCompleted ==
    /\ pc = "completed"
    /\ log' = log \o <<CompletedMsg, SampleMsg>>
    /\ pc' = "show"
    /\ UNCHANGED <<sparkBound, sessionLive, initCount, stopCount, ran, raised,
                   pending, exitErr, files>>
    /\ UNCHANGED <<labelVars, genVars, aggVars>>

\* line 194: df_processed.show(5); the try block ends.
MainShow ==
    /\ pc = "show"
    /\ ran' = Append(ran, "show")
    /\ \/ pc' = "finally" /\ UNCHANGED <<raised, pending>>
       \/ Raise("show")
    /\ UNCHANGED <<sparkBound, sessionLive, initCount, stopCount, exitErr,
                   log, files>>
    /\ UNCHANGED <<labelVars, genVars, aggVars>>

\* lines 196-198: log the error and re-raise it.
ExceptClauseSwallows ==
    /\ pc = "except"
    /\ log' = Append(log, ErrorMsg(pending))
    /\ pending' = "none"
    /\ pc' = "finally"
    /\ UNCHANGED <<sparkBound, sessionLive, initCount, stopCount, ran, raised,
                   exitErr, files>>
    /\ UNCHANGED <<labelVars, genVars, aggVars>>

MainExcept ==
    /\ pc = "except"
    /\ log' = Append(log, ErrorMsg(pending))
    /\ pc' = "finally"
    /\ UNCHANGED <<sparkBound, sessionLive, initCount, stopCount, ran, raised,
                   pending, exitErr, files>>
    /\ UNCHANGED <<labelVars, genVars, aggVars>>

\* lines 199-202: the finally clause, then main() ends: normally, or with the
\* exception still propagating.
MainFinally ==
    /\ pc = "finally"
    /\ \/ /\ sparkBound
          /\ sessionLive' = FALSE
          /\ stopCount' = stopCount + 1
          /\ log' = Append(log, StoppedMsg)
       \/ /\ ~sparkBound
          /\ UNCHANGED <<sessionLive, stopCount, log>>
    /\ exitErr' = pending
    /\ pc' = "done"
    /\ UNCHANGED <<sparkBound, initCount, ran, raised, pending, files>>
    /\ UNCHANGED <<labelVars, genVars, aggVars>>

Next ==
    \/ MainStart
    \/ MainGetOrCreate
    \/ MainConfSet
    \/ MainGenerate
    \/ MainRdd
    \/ MainDataFrame
    \/ MainMakedirs
    \/ MainWriteProcessed
    \/ MainWriteDept
    \/ MainWriteAge
    \/ MainLogCompleted
    \/ MainShow
    \/ MainExcept
    \/ MainFinally

Spec == InitMain /\ [][Next]_vars

----------------------------------------------------------------------------
\* Properties.

HasLogged(m) == \E i \in 1..Len(log) : log[i] = m

LoggedBefore(m1, m2) ==
    \E i \in 1..Len(log), j \in 1..Len(log) :
        i < j /\ log[i] = m1 /\ log[j] = m2

\* C1: in every run of main() the session is initialized at most once, and
\* when main() has ended a session that was created has been stopped exactly
\* once: no exit path leaves it live.
C1_SessionReleasedOnEveryExit ==
    /\ initCount <= 1
    /\ pc = "done" => (stopCount = initCount /\ ~sessionLive)

\* The stages C2 names: generation, either aggregation, each of the writes.
C2Stages ==
    {"generation", "rdd", "dataframe",
     "write_processed", "write_dept", "write_age"}

\* C2: when one of these stages raises, no later stage runs, the completion
\* message is never logged, the error is logged before the finally clause,
\* and main() ends with that same error, after the error was logged and the
\* session was stopped (exactly once).
C2_NoErrorSwallowed ==
    raised \in C2Stages =>
        /\ ran[Len(ran)] = raised
        /\ ~HasLogged(CompletedMsg)
        /\ pc \in {"finally", "done"} => HasLogged(ErrorMsg(raised))
        /\ pc = "done" =>
            /\ exitErr = raised
            /\ stopCount = 1 /\ ~sessionLive
            /\ LoggedBefore(ErrorMsg(raised), StoppedMsg)

\* A run in which the second write raised and main() ended with that error.
C2_Witness ==
    /\ pc = "done"
    /\ raised = "write_dept"
    /\ exitErr = "write_dept"
    /\ HasLogged(SavedMsg(processed_path))

\* The stage that writes each path.
WriteStage(p) ==
    CASE p = processed_path -> "write_processed"
      [] p = dept_stats_path -> "write_dept"
      [] p = age_stats_path -> "write_age"

\* C4: when the write of a result set fails, save_results does not return
\* (main() never logs completion and ends with the error) and what is left
\* at that result set's path is not a partial output.
C4_WriteAllOrNothing ==
    \A p \in Paths :
        raised = WriteStage(p) =>
            /\ ~HasLogged(CompletedMsg)
            /\ pc = "done" => exitErr = raised
            /\ files[p] # "partial"

\* C10: in every run where the completion message is logged, the three
\* result sets were written before it, and no error is logged or raised to
\* the caller after it.
C10_CompletedOnlyOnSuccess ==
    HasLogged(CompletedMsg) =>
        /\ \A p \in Paths : LoggedBefore(SavedMsg(p), CompletedMsg)
        /\ \A p \in Paths : files[p] = "current"
        /\ \A i \in 1..Len(log) : log[i][1] # ErrorMsg("")[1]
        /\ exitErr = "none"

\* The row counts create_sample_data is specified for: integers N >= 1.
ValidCount == num_rows.isint /\ num_rows.val >= 1

SetOf(seq) == {seq[i] : i \in 1..Len(seq)}

\* C5: for every row count N >= 1, create_sample_data returns, and returns
\* exactly N records, each with id in [1,10000], age in [22,65], salary in
\* [30000,150000], one of the 5 departments and one of the 8 names.
C5_GeneratesNRecordsInBounds ==
    (ValidCount /\ gpc = "done") =>
        /\ gresult = "returned"
        /\ Len(gdf) = num_rows.val
        /\ \A i \in 1..Len(gdf) :
            /\ gdf[i].id >= 1 /\ gdf[i].id <= 10000
            /\ gdf[i].age >= 22 /\ gdf[i].age <= 65
            /\ gdf[i].salary >= 30000 /\ gdf[i].salary <= 150000
            /\ gdf[i].department \in SetOf(departments)
            /\ gdf[i].name \in SetOf(names)
        /\ Cardinality(SetOf(departments)) = 5
        /\ Cardinality(SetOf(names)) = 8

\* A call that returned two records or more, the two not equal.
C5_Witness ==
    /\ gresult = "returned"
    /\ Len(gdf) >= 2
    /\ gdf[1] # gdf[2]

\* C9: given a row count that is zero, negative or not an integer,
\* create_sample_data makes no dataset (no RDD, no DataFrame), never returns,
\* and ends by raising.
C9_InvalidCountFailsFast ==
    ~ValidCount =>
        /\ ~rdd.created
        /\ gdf = <<>>
        /\ gresult # "returned"
        /\ gpc = "done" => gresult = "raised"

\* C6: the label of an age is Young exactly when age < 30, Middle exactly
\* when 30 <= age < 50, Senior exactly when age >= 50; the label of a salary
\* is Low exactly when salary < 50000, Medium exactly when
\* 50000 <= salary < 100000, High exactly when salary >= 100000; and the
\* key-value path's band equals the tabular path's age_group.
C6_LabelsPartition ==
    lpc = "labelled" =>
        /\ rdd_band = age_group
        /\ rdd_band \in {"Young", "Middle", "Senior"}
        /\ rdd_band = "Young" <=> age < 30
        /\ rdd_band = "Middle" <=> (30 <= age /\ age < 50)
        /\ rdd_band = "Senior" <=> age >= 50
        /\ salary_category \in {"Low", "Medium", "High"}
        /\ salary_category = "Low" <=> salary < 50000
        /\ salary_category = "Medium" <=> (50000 <= salary /\ salary < 100000)
        /\ salary_category = "High" <=> salary >= 100000

\* A row on both lower thresholds, labelled.
C6_Witness ==
    /\ lpc = "labelled"
    /\ age = 30 /\ rdd_band = "Middle" /\ age_group = "Middle"
    /\ salary = 50000 /\ salary_category = "Medium"

\* The rows of the input whose department, or whose age band, is k.
RowsOfDept(k) == {i \in 1..Len(adf) : adf[i].department = k}

RowsOfBand(k) ==
    {i \in 1..Len(adf) :
        \/ k = "Young" /\ adf[i].age < 30
        \/ k = "Middle" /\ adf[i].age >= 30 /\ adf[i].age < 50
        \/ k = "Senior" /\ adf[i].age >= 50}

\* C3: once both paths have run, they have the same departments with the
\* same avg_salary each, and the same age bands with the same avg_salary and
\* the same count each.
C3_PathsAgree ==
    apc = "done" =>
        /\ DOMAIN dept_avg_salary = DOMAIN dept_stats
        /\ \A k \in DOMAIN dept_stats :
            dept_avg_salary[k] = dept_stats[k].avg_salary
        /\ DOMAIN age_group_stats = DOMAIN age_stats
        /\ \A k \in DOMAIN age_stats :
            /\ age_group_stats[k][1] = age_stats[k].avg_salary
            /\ age_group_stats[k][2] = age_stats[k].count

\* Both paths done on an input with two departments or more, a department
\* of two rows or more, and a row of age 50.
C3_Witness ==
    /\ apc = "done"
    /\ Cardinality(DOMAIN dept_stats) >= 2
    /\ \E k \in DOMAIN dept_stats : dept_stats[k].employee_count >= 2
    /\ \E i \in 1..Len(adf) : adf[i].age = 50
    /\ \E k \in DOMAIN age_stats : age_stats[k].count >= 2

\* The fold of the (key, value) pairs of a sequence from left to right in
\* one partition: the first value of a key starts its accumulator, each
\* later one is combined into it.
RECURSIVE FoldInOrder(_, _)
FoldInOrder(pairs, acc) ==
    IF pairs = <<>> THEN acc
    ELSE LET k == Head(pairs)[1]
             v == Head(pairs)[2]
             acc2 == IF k \in DOMAIN acc
                     THEN [acc EXCEPT ![k] = combiner(acc[k], v)]
                     ELSE [j \in DOMAIN acc \cup {k} |->
                              IF j = k THEN v ELSE acc[j]]
         IN FoldInOrder(Tail(pairs), acc2)

NoKeys == [k \in {} |-> <<0, 0>>]

DeptPairsInOrder ==
    [i \in 1..Len(adf) |-> <<adf[i].department, <<adf[i].salary, 1>>>>]

AgePairsInOrder ==
    [i \in 1..Len(adf) |-> <<AgeBand(adf[i].age), <<adf[i].salary, 1>>>>]

\* C7: whatever values the combiner was applied to and in whatever order,
\* the (sum, count) of every key, and so its average, is the one the
\* left-to-right fold of the rows in a single partition gives.
C7_FoldOrderIndependent ==
    /\ apc \notin {"rdd_dept_map", "rdd_dept_reduce", "idle"} =>
        /\ dept_sums = FoldInOrder(DeptPairsInOrder, NoKeys)
        /\ \A k \in DOMAIN dept_sums :
            dept_avg_salary[k] = TrueDiv(dept_sums[k][1], dept_sums[k][2])
    /\ apc \in {"dataframe", "done"} =>
        /\ age_sums = FoldInOrder(AgePairsInOrder, NoKeys)
        /\ \A k \in DOMAIN age_sums :
            age_group_stats[k][1] = TrueDiv(age_sums[k][1], age_sums[k][2])

\* A key reduced from four values with three different salaries, so that
\* the combinations differ with the split and the order.
C7_Witness ==
    /\ apc = "done"
    /\ \E k \in DOMAIN dept_sums :
        /\ dept_sums[k][2] = 4
        /\ Cardinality({adf[i].salary : i \in RowsOfDept(k)}) = 3

\* The worked example: (25, 40000, Eng), (35, 60000, Eng), (28, 80000, Sales).
ExampleRows ==
    << [id |-> 1, name |-> "Alice", age |-> 25, salary |-> 40000,
        department |-> "Engineering"],
       [id |-> 2, name |-> "Bob", age |-> 35, salary |-> 60000,
        department |-> "Engineering"],
       [id |-> 3, name |-> "Charlie", age |-> 28, salary |-> 80000,
        department |-> "Sales"] >>

\* C8: in the results of the key-value path a department (an age band) is a
\* key exactly when a row has it; its count is the number of its rows, at
\* least 1; its avg_salary is the sum of its rows' salaries divided by that
\* count, never a division by zero. On the worked example: Engineering 50000,
\* Sales 80000, Young 60000 (2 rows), Middle 60000 (1 row), no Senior.
C8_GroupsFromRowsOnly ==
    apc = "done" =>
        /\ DOMAIN dept_avg_salary = {adf[i].department : i \in 1..Len(adf)}
        /\ \A k \in DOMAIN dept_avg_salary :
            /\ dept_sums[k][2] = Cardinality(RowsOfDept(k))
            /\ dept_sums[k][2] >= 1
            /\ dept_avg_salary[k] # ZeroDivisionError
            /\ dept_avg_salary[k][1] * Cardinality(RowsOfDept(k))
                   = SumOf(adf, "salary", RowsOfDept(k)) * dept_avg_salary[k][2]
        /\ \A k \in {"Young", "Middle", "Senior"} :
            k \in DOMAIN age_group_stats <=> RowsOfBand(k) # {}
        /\ DOMAIN age_group_stats \subseteq {"Young", "Middle", "Senior"}
        /\ \A k \in DOMAIN age_group_stats :
            /\ age_group_stats[k][2] = Cardinality(RowsOfBand(k))
            /\ age_group_stats[k][2] >= 1
            /\ age_group_stats[k][1] # ZeroDivisionError
            /\ age_group_stats[k][1][1] * Cardinality(RowsOfBand(k))
                   = SumOf(adf, "salary", RowsOfBand(k))
                         * age_group_stats[k][1][2]
        /\ adf = ExampleRows =>
            /\ dept_avg_salary =
                   [k \in {"Engineering", "Sales"} |->
                       IF k = "Engineering" THEN <<50000, 1>>
                       ELSE <<80000, 1>>]
            /\ age_group_stats =
                   [k \in {"Young", "Middle"} |->
                       IF k = "Young" THEN <<<<60000, 1>>, 2>>
                       ELSE <<<<60000, 1>>, 1>>]

\* The key-value path done on the worked example.
C8_Witness ==
    /\ apc = "done"
    /\ adf = ExampleRows
    /\ "Senior" \notin DOMAIN age_group_stats
    /\ dept_avg_salary["Engineering"] = <<50000, 1>>

====
